---- MODULE Spec2Model ----
(***************************************************************************)
(* Model of the sessions migrations of openobserve:                        *)
(*   m20251118_000001_create_sessions_table   (schema: table + index)      *)
(*   m20251118_000002_populate_sessions_table (data: meta -> sessions)     *)
(* Strings are sequences of one-character strings, so that emptiness and   *)
(* length are what the code tests.                                         *)
(***************************************************************************)
EXTENDS Integers, Sequences, FiniteSets, TLC

\* ---------------------------------------------------------------- bounds
\* rows asked for per page; the code asks for 100 (populate, line 36)
PageSize == 2
\* largest number of rows of the meta table
MaxMeta == 3
\* largest value of the wall clock
MaxClock == 1
\* largest number of invocations of the populate up per process
MaxRuns == 2
\* largest number of rows another program deletes from meta
MaxExtWrites == 1
\* largest number of rows of the meta table when several actors overlap
MaxMetaOverlap == 3
\* largest number of invocations of the populate up when several actors overlap
MaxRunsOverlap == 1
\* largest number of rows of the meta table in the life of the schema
MaxMetaSchema == 2

\* ------------------------------------------------------------- strings
QUOTE == "\""
Empty == <<>>
USER_SESSIONS == <<"u", "s">>
OTHER_MODULE == <<"o">>

Min(a, b) == IF a < b THEN a ELSE b

RECURSIVE SelectSeq2(_, _)
\* the elements of s whose module is mod, in order
SelectSeq2(s, mod) ==
    IF s = <<>> THEN <<>>
    ELSE IF Head(s).module = mod
         THEN <<Head(s)>> \o SelectSeq2(Tail(s), mod)
         ELSE SelectSeq2(Tail(s), mod)

\* ------------------------------------------------- the legacy meta rows
\* payloads: the JSON string "t", the JSON string "", and text that is not
\* a JSON string
PTok == <<QUOTE, "t", QUOTE>>
PEmptyStr == <<QUOTE, QUOTE>>
PNotJson == <<"n">>

MetaShape(mod, k1, k2, v) == [module |-> mod, key1 |-> k1, key2 |-> k2, value |-> v]

\* the contents a row of meta is drawn from (its id is its insertion rank):
\* an identifier in key2, in key1, in both, in neither; a payload that is a
\* token, the empty string, or not JSON; a row of another module
MetaShapes ==
    { MetaShape(USER_SESSIONS, Empty, <<"a">>, PTok),
      MetaShape(USER_SESSIONS, Empty, <<"c">>, PTok),
      MetaShape(USER_SESSIONS, <<"a">>, Empty, PTok),
      MetaShape(USER_SESSIONS, <<"a">>, <<"b">>, PTok),
      MetaShape(USER_SESSIONS, Empty, Empty, PNotJson),
      MetaShape(USER_SESSIONS, Empty, <<"b">>, PEmptyStr),
      MetaShape(USER_SESSIONS, Empty, <<"b">>, PNotJson),
      MetaShape(OTHER_MODULE, Empty, <<"a">>, PTok) }

WithId(sh, i) == [id |-> i, module |-> sh.module, key1 |-> sh.key1,
                  key2 |-> sh.key2, value |-> sh.value]

\* the contents drawn from in the specifications with several actors
MetaShapesOverlap ==
    { MetaShape(USER_SESSIONS, Empty, <<"a">>, PTok),
      MetaShape(USER_SESSIONS, <<"b">>, Empty, PTok) }

\* session_id is declared string_len(36)
SessionIdLen == 36

\* an identifier of n characters
IdOfLen(n) == [i \in 1..n |-> "x"]

\* contents whose identifier fills the session_id column or exceeds it by
\* one character, in key2 or in key1
MetaShapesLong ==
    { MetaShape(USER_SESSIONS, Empty, <<"a">>, PTok),
      MetaShape(USER_SESSIONS, Empty, IdOfLen(SessionIdLen), PTok),
      MetaShape(USER_SESSIONS, Empty, IdOfLen(SessionIdLen + 1), PTok),
      MetaShape(USER_SESSIONS, IdOfLen(SessionIdLen + 1), Empty, PTok) }

\* every meta table of at most n rows, ids ascending from 1
MetaTablesOf(shapes, n) ==
    UNION { { [i \in 1..k |-> WithId(f[i], i)] : f \in [1..k -> shapes] } : k \in 0..n }

MetaTables(n) == MetaTablesOf(MetaShapes, n)

\* ------------------------------------------------------------ processes
AllProcs == {1, 2}

VARIABLES
    dialect,       \* the database backend
    tableExists,   \* the sessions table exists
    indexExists,   \* the unique index sessions_session_id_idx exists
    meta,          \* the meta table: rows in ascending id order
    sessions_tbl,  \* the committed rows of the sessions table
    now,           \* the wall clock (microseconds)
    pc,            \* per process: position in populate up
    page,          \* per process: the paginator's page counter
    metas,         \* per process: the rest of the fetched page
    sessions,      \* per process: the vec of rows built from the page
    txnRows,       \* per process: rows inserted in the open transaction
    preRows,       \* per process: the table when the run began
    result,        \* per process: what up returned
    trace,         \* per process: the database calls of the run, in order
    runs,          \* per process: number of invocations of up
    seen,          \* per process: ids of the meta rows the loop has taken
    preMeta,       \* per process: the meta table when the run began
    prevOp,        \* per process: the operation completed before the run
    lastOp,        \* the last populate operation that completed
    extWrites,     \* number of writes of other programs to meta
    spc,           \* position in the schema migration
    schemaResult,  \* what the schema migration returned
    preSchema      \* the schema and rows when the schema migration began

vars == <<dialect, tableExists, indexExists, meta, sessions_tbl, now, pc, page,
          metas, sessions, txnRows, preRows, result, trace, runs, seen, preMeta,
          prevOp, lastOp, extWrites, spc, schemaResult, preSchema>>

schemaVars == <<dialect, tableExists, indexExists, spc, schemaResult, preSchema>>
procVars == <<pc, page, metas, sessions, txnRows, preRows, result, trace, runs,
              seen, preMeta, prevOp>>

Dialects == {"Postgres", "MySql", "Sqlite"}

\* ------------------------------------------------------- the decoder
\* the identifier taken from key1 first
SessionIdOf_PrefersKey1(m) == IF m.key1 = Empty THEN m.key2 ELSE m.key1

\* session_id: key2, or key1 when key2 is empty
SessionIdOf(m) == IF m.key2 = Empty THEN m.key1 ELSE m.key2

\* json::from_str::<String>: the text must be one JSON string literal
JsonFromStr(v) ==
    IF /\ Len(v) >= 2
       /\ v[1] = QUOTE
       /\ v[Len(v)] = QUOTE
       /\ \A i \in 2..(Len(v) - 1) : v[i] # QUOTE
    THEN [ok |-> TRUE, val |-> SubSeq(v, 2, Len(v) - 1)]
    ELSE [ok |-> FALSE, val |-> Empty]

\* a loop body that skips a row whose payload does not decode
Decode_SkipUndecodable(m) ==
    LET sid == SessionIdOf(m)
        tok == JsonFromStr(m.value)
    IN  IF sid = Empty \/ ~tok.ok \/ tok.val = Empty
        THEN [kind |-> "skip", session_id |-> sid, access_token |-> Empty]
        ELSE [kind |-> "row", session_id |-> sid, access_token |-> tok.val]

\* a loop body that fails on an empty access token
Decode_ErrOnEmptyToken(m) ==
    LET sid == SessionIdOf(m)
        tok == JsonFromStr(m.value)
    IN  IF sid = Empty THEN [kind |-> "skip", session_id |-> Empty, access_token |-> Empty]
        ELSE IF ~tok.ok \/ tok.val = Empty
        THEN [kind |-> "err", session_id |-> sid, access_token |-> Empty]
        ELSE [kind |-> "row", session_id |-> sid, access_token |-> tok.val]

\* what the body of the for loop does with one row m:
\* "skip" (continue), "err" (return the decode error) or "row" (push)
Decode(m) ==
    LET sid == SessionIdOf(m)
        tok == JsonFromStr(m.value)
    IN  IF sid = Empty THEN [kind |-> "skip", session_id |-> Empty, access_token |-> Empty]
        ELSE IF ~tok.ok THEN [kind |-> "err", session_id |-> sid, access_token |-> Empty]
        ELSE IF tok.val = Empty THEN [kind |-> "skip", session_id |-> sid, access_token |-> Empty]
        ELSE [kind |-> "row", session_id |-> sid, access_token |-> tok.val]

\* a row whose updated_at is left at the epoch
SessionRow_UpdatedAtUnset(d, t) == [session_id |-> d.session_id, access_token |-> d.access_token,
                                    created_at |-> t, updated_at |-> 0]

\* sessions::ActiveModel built at time t (id is NotSet: left to the database)
SessionRow(d, t) == [session_id |-> d.session_id, access_token |-> d.access_token,
                     created_at |-> t, updated_at |-> t]

\* ------------------------------------------------------- the paginator
\* filter(module = "user_sessions").order_by_asc(id)
Matching(src) == SelectSeq2(src, USER_SESSIONS)

\* pages whose offsets skip a row at every page boundary
FetchPage_SkipsAtBoundary(src, n) ==
    LET q == Matching(src)
    IN  SubSeq(q, (PageSize + 1) * n + 1, Min((PageSize + 1) * n + PageSize, Len(q)))

\* fetch_page(n): LIMIT PageSize OFFSET PageSize * n over the ordered query
FetchPage(src, n) ==
    LET q == Matching(src)
    IN  SubSeq(q, PageSize * n + 1, Min(PageSize * (n + 1), Len(q)))

\* ------------------------------------------------------- the database
SessionIds(rows) == { rows[i].session_id : i \in 1..Len(rows) }

\* an index that compares the rows of a statement with the stored rows only
HasDuplicateIds_StoredOnly(rows) == FALSE

\* the same session_id in two rows
HasDuplicateIds(rows) ==
    \E i, j \in 1..Len(rows) : i # j /\ rows[i].session_id = rows[j].session_id

\* rows other open transactions have inserted and not yet committed
OthersPending(p) == UNION { SessionIds(txnRows[q]) : q \in AllProcs \ {p} }

\* an index that only looks inside the batch
UniqueViolation_BatchOnly(batch, committed, own) == HasDuplicateIds(batch)

\* the unique index rejects the batch: an id twice in the batch, or already
\* in the table, or already inserted by this transaction
UniqueViolation(batch, committed, own) ==
    \/ HasDuplicateIds(batch)
    \/ SessionIds(batch) \cap (SessionIds(committed) \cup SessionIds(own)) # {}

\* a rollback that leaves the inserted rows in the table
TableAfterRollback_KeepsPending(committed, pending) == committed \o pending

\* the table after the transaction is dropped without commit
TableAfterRollback(committed, pending) == committed

\* the table after commit
TableAfterCommit(committed, pending) == committed \o pending

\* a loop that takes a short page for the last one
AfterFetch_ShortPageIsLast(vec) == IF Len(vec) < PageSize THEN "commit" ELSE "loop"

\* ------------------------------------------------------- populate: up
\* where the loop goes after a fetch: `while let Some(metas)`
AfterFetch(vec) == IF vec = <<>> THEN "commit" ELSE "loop"

\* a loop that takes a page without valid pairs for the end of the scan
AfterBatch_EmptyEndsScan(batch) == IF batch = <<>> THEN "commit" ELSE "fetch"

\* where the loop goes after the page's batch, inserted or not: the body of
\* `while let` ends and the next page is fetched
AfterBatch(batch) == "fetch"

\* the transaction is dropped without commit: it is rolled back
RollbackOnDrop(tr) == Append(tr, "rollback")

\* an early return by `?` after begin, recording the failed call ev
Abort(p, err, ev) ==
    /\ pc' = [pc EXCEPT ![p] = "done"]
    /\ result' = [result EXCEPT ![p] = err]
    /\ trace' = [trace EXCEPT ![p] = RollbackOnDrop(@ \o ev)]
    /\ sessions_tbl' = TableAfterRollback(sessions_tbl, txnRows[p])
    /\ txnRows' = [txnRows EXCEPT ![p] = <<>>]
    /\ metas' = [metas EXCEPT ![p] = <<>>]
    /\ sessions' = [sessions EXCEPT ![p] = <<>>]
    /\ lastOp' = "UpErr"

\* db.begin().await?
Begin(p) ==
    /\ pc[p] = "idle"
    /\ runs[p] < MaxRuns
    /\ runs' = [runs EXCEPT ![p] = @ + 1]
    /\ preRows' = [preRows EXCEPT ![p] = sessions_tbl]
    /\ preMeta' = [preMeta EXCEPT ![p] = meta]
    /\ prevOp' = [prevOp EXCEPT ![p] = lastOp]
    /\ page' = [page EXCEPT ![p] = 0]
    /\ seen' = [seen EXCEPT ![p] = <<>>]
    /\ metas' = [metas EXCEPT ![p] = <<>>]
    /\ sessions' = [sessions EXCEPT ![p] = <<>>]
    /\ txnRows' = [txnRows EXCEPT ![p] = <<>>]
    /\ \E ok \in BOOLEAN :
         IF ok
         THEN /\ pc' = [pc EXCEPT ![p] = "fetch"]
              /\ result' = [result EXCEPT ![p] = "none"]
              /\ trace' = [trace EXCEPT ![p] = <<"begin">>]
              /\ UNCHANGED lastOp
         ELSE /\ pc' = [pc EXCEPT ![p] = "done"]
              /\ result' = [result EXCEPT ![p] = "ErrBegin"]
              /\ trace' = [trace EXCEPT ![p] = <<>>]
              /\ lastOp' = "UpErr"
    /\ UNCHANGED <<meta, sessions_tbl, now, extWrites>>
    /\ UNCHANGED schemaVars

\* meta_pages.fetch_and_next().await?
Fetch(p) ==
    /\ pc[p] = "fetch"
    /\ \E ok \in BOOLEAN :
         IF ~ok
         THEN /\ Abort(p, "ErrFetch", <<"fetch_failed">>)
              /\ UNCHANGED page
         ELSE LET vec == FetchPage(meta, page[p])
              IN  /\ page' = [page EXCEPT ![p] = @ + 1]
                  /\ metas' = [metas EXCEPT ![p] = vec]
                  /\ sessions' = [sessions EXCEPT ![p] = <<>>]
                  /\ pc' = [pc EXCEPT ![p] = AfterFetch(vec)]
                  /\ trace' = [trace EXCEPT ![p] =
                                 Append(@, IF vec = <<>> THEN "fetch_empty" ELSE "fetch")]
                  /\ UNCHANGED <<sessions_tbl, txnRows, result, lastOp>>
    /\ UNCHANGED <<meta, now, preRows, runs, seen, preMeta, prevOp, extWrites>>
    /\ UNCHANGED schemaVars

\* one iteration of `for m in metas`
ProcessRecord(p) ==
    /\ pc[p] = "loop"
    /\ metas[p] # <<>>
    /\ seen' = [seen EXCEPT ![p] = Append(@, Head(metas[p]).id)]
    /\ LET d == Decode(Head(metas[p]))
       IN  IF d.kind = "err"
           THEN /\ Abort(p, "ErrDecode", <<>>)
           ELSE /\ metas' = [metas EXCEPT ![p] = Tail(@)]
                /\ sessions' = [sessions EXCEPT ![p] =
                                  IF d.kind = "row" THEN Append(@, SessionRow(d, now)) ELSE @]
                /\ UNCHANGED <<pc, result, trace, sessions_tbl, txnRows, lastOp>>
    /\ UNCHANGED <<meta, now, page, preRows, runs, preMeta, prevOp, extWrites>>
    /\ UNCHANGED schemaVars

\* an index that does not see the rows of open transactions
Blocked_Never(p) == FALSE

\* the insert has to wait for an open transaction that holds one of its ids
Blocked(p) == indexExists /\ SessionIds(sessions[p]) \cap OthersPending(p) # {}

\* some row of the batch has a session_id longer than the column
ExceedsColumn(batch) == \E i \in 1..Len(batch) : Len(batch[i].session_id) > SessionIdLen

\* the backends that enforce the declared length of a string column:
\* Sqlite stores the value whatever its length
EnforcesLength(d) == d # "Sqlite"

\* after the for loop:
\* if !sessions.is_empty() { insert_many(sessions).exec(&txn).await? }
InsertBatch(p) ==
    /\ pc[p] = "loop"
    /\ metas[p] = <<>>
    /\ IF sessions[p] = <<>>
       THEN /\ pc' = [pc EXCEPT ![p] = AfterBatch(sessions[p])]
            /\ UNCHANGED <<result, trace, sessions_tbl, txnRows, metas, sessions, lastOp>>
       ELSE \E ok \in BOOLEAN :
              IF ~ok \/ ~tableExists \/ (ExceedsColumn(sessions[p]) /\ EnforcesLength(dialect))
              THEN Abort(p, "ErrInsert", <<"insert_failed">>)
              ELSE /\ ~Blocked(p)
                   /\ IF indexExists /\ UniqueViolation(sessions[p], sessions_tbl, txnRows[p])
                      THEN Abort(p, "ErrUnique", <<"insert_failed">>)
                      ELSE /\ txnRows' = [txnRows EXCEPT ![p] = @ \o sessions[p]]
                           /\ sessions' = [sessions EXCEPT ![p] = <<>>]
                           /\ pc' = [pc EXCEPT ![p] = AfterBatch(sessions[p])]
                           /\ trace' = [trace EXCEPT ![p] = Append(@, "insert")]
                           /\ UNCHANGED <<result, sessions_tbl, metas, lastOp>>
    /\ UNCHANGED <<meta, now, page, preRows, runs, seen, preMeta, prevOp, extWrites>>
    /\ UNCHANGED schemaVars

\* a migration that moves the sessions: the scanned category is deleted
\* from meta in the same transaction
MetaAfterCommit_DeletesMigrated(src) == SelectSeq(src, LAMBDA r : r.module # USER_SESSIONS)

\* the meta table once the transaction of up is committed: up only selects
\* from meta, every write goes to sessions
MetaAfterCommit(src) == src

\* txn.commit().await?; Ok(())
Commit(p) ==
    /\ pc[p] = "commit"
    /\ \E ok \in BOOLEAN :
         IF ~ok
         THEN /\ Abort(p, "ErrCommit", <<"commit_failed">>)
              /\ UNCHANGED meta
         ELSE /\ sessions_tbl' = TableAfterCommit(sessions_tbl, txnRows[p])
              /\ meta' = MetaAfterCommit(meta)
              /\ txnRows' = [txnRows EXCEPT ![p] = <<>>]
              /\ pc' = [pc EXCEPT ![p] = "done"]
              /\ result' = [result EXCEPT ![p] = "Ok"]
              /\ trace' = [trace EXCEPT ![p] = Append(@, "commit")]
              /\ lastOp' = "UpOk"
              /\ UNCHANGED <<metas, sessions>>
    /\ UNCHANGED <<now, page, preRows, runs, seen, preMeta, prevOp, extWrites>>
    /\ UNCHANGED schemaVars

\* up has returned to the migrator
Return(p) ==
    /\ pc[p] = "done"
    /\ pc' = [pc EXCEPT ![p] = "idle"]
    /\ UNCHANGED <<meta, sessions_tbl, now, page, metas, sessions, txnRows, preRows,
                   result, trace, runs, seen, preMeta, prevOp, lastOp, extWrites>>
    /\ UNCHANGED schemaVars

Up(p) == Begin(p) \/ Fetch(p) \/ ProcessRecord(p) \/ InsertBatch(p) \/ Commit(p) \/ Return(p)

\* ----------------------------------------------------- populate: down
\* a delete that undoes the migration's rows only and keeps the oldest row
RowsAfterDeleteMany_KeepsOldest(rows) == IF rows = <<>> THEN <<>> ELSE <<Head(rows)>>

\* sessions::Entity::delete_many() with no filter: the rows left by a DELETE
\* without WHERE
RowsAfterDeleteMany(rows) == <<>>

\* sessions::Entity::delete_many().exec(db).await?; Ok(())
\* It runs on the connection, outside any transaction of up.  On MySql and
\* Sqlite the delete waits for open transactions that hold row locks.
Down ==
    /\ dialect = "Postgres" \/ \A q \in AllProcs : txnRows[q] = <<>>
    /\ \E ok \in BOOLEAN :
         IF ok /\ tableExists
         THEN /\ sessions_tbl' = RowsAfterDeleteMany(sessions_tbl)
              /\ lastOp' = "DownOk"
         ELSE /\ UNCHANGED sessions_tbl
              /\ lastOp' = "DownErr"
    /\ UNCHANGED <<meta, now, extWrites>>
    /\ UNCHANGED procVars
    /\ UNCHANGED schemaVars

\* ---------------------------------------------------- schema migration
\* create_sessions_table_statement(): rendered with IF NOT EXISTS by every
\* query builder (tests postgres, mysql, sqlite)
CreateTableIfNotExists(d) == TRUE

\* create_sessions_session_id_idx_stmnt(): the builder asks for IF NOT
\* EXISTS; the MySql rendering has none (test mysql), the others have it
CreateIndexIfNotExists(d) == d # "MySql"

\* Index::drop().name(SESSION_ID_IDX): names no table and has no IF EXISTS.
\* MySql's DROP INDEX needs ON <table>; whether the statement built without
\* a table is accepted there is not decided by this source, so both
\* outcomes are kept.
DropIndexAccepted(d) == IF d = "MySql" THEN {TRUE, FALSE} ELSE {TRUE}

\* a drop that reports success and leaves the index in place
IndexAfterDropIndex_NotDropped == TRUE

\* whether the index exists once DROP INDEX has been executed
IndexAfterDropIndex == FALSE

SchemaIdle == spc = "idle" /\ \A p \in AllProcs : pc[p] = "idle"

SchemaEnd(op, res) ==
    /\ spc' = op
    /\ schemaResult' = res

\* up: manager.create_table(create_sessions_table_statement()).await?
SchemaUpCreateTable ==
    /\ SchemaIdle
    /\ preSchema' = [table |-> tableExists, index |-> indexExists, rows |-> sessions_tbl]
    /\ \E ok \in BOOLEAN :
         IF ~ok
         THEN /\ SchemaEnd("up_done", "ErrExec")
              /\ UNCHANGED <<tableExists, sessions_tbl>>
         ELSE IF tableExists
         THEN /\ IF CreateTableIfNotExists(dialect)
                 THEN SchemaEnd("up_index", "none")
                 ELSE SchemaEnd("up_done", "ErrExists")
              /\ UNCHANGED <<tableExists, sessions_tbl>>
         ELSE /\ tableExists' = TRUE
              /\ sessions_tbl' = <<>>
              /\ SchemaEnd("up_index", "none")
    /\ UNCHANGED <<dialect, indexExists, meta, now, lastOp, extWrites>>
    /\ UNCHANGED procVars

\* up: manager.create_index(create_sessions_session_id_idx_stmnt()).await?; Ok(())
SchemaUpCreateIndex ==
    /\ spc = "up_index"
    /\ \E ok \in BOOLEAN :
         IF ~ok \/ ~tableExists
         THEN /\ SchemaEnd("up_done", "ErrExec")
              /\ UNCHANGED indexExists
         ELSE IF indexExists
         THEN /\ SchemaEnd("up_done", IF CreateIndexIfNotExists(dialect) THEN "Ok" ELSE "ErrExists")
              /\ UNCHANGED indexExists
         ELSE IF HasDuplicateIds(sessions_tbl)
         THEN /\ SchemaEnd("up_done", "ErrUnique")
              /\ UNCHANGED indexExists
         ELSE /\ indexExists' = TRUE
              /\ SchemaEnd("up_done", "Ok")
    /\ UNCHANGED <<dialect, tableExists, preSchema, meta, sessions_tbl, now, lastOp, extWrites>>
    /\ UNCHANGED procVars

\* down: manager.drop_index(Index::drop().name(SESSION_ID_IDX)).await?
SchemaDownDropIndex ==
    /\ SchemaIdle
    /\ preSchema' = [table |-> tableExists, index |-> indexExists, rows |-> sessions_tbl]
    /\ \E ok \in BOOLEAN, accepted \in DropIndexAccepted(dialect) :
         IF ~ok
         THEN /\ SchemaEnd("down_done", "ErrExec")
              /\ UNCHANGED indexExists
         ELSE IF ~accepted
         THEN /\ SchemaEnd("down_done", "ErrSyntax")
              /\ UNCHANGED indexExists
         ELSE IF ~indexExists
         THEN /\ SchemaEnd("down_done", "ErrMissing")
              /\ UNCHANGED indexExists
         ELSE /\ indexExists' = IndexAfterDropIndex
              /\ SchemaEnd("down_table", "none")
    /\ UNCHANGED <<dialect, tableExists, meta, sessions_tbl, now, lastOp, extWrites>>
    /\ UNCHANGED procVars

\* down: manager.drop_table(Table::drop().table(Sessions::Table)).await?; Ok(())
SchemaDownDropTable ==
    /\ spc = "down_table"
    /\ \E ok \in BOOLEAN :
         IF ~ok
         THEN /\ SchemaEnd("down_done", "ErrExec")
              /\ UNCHANGED <<tableExists, indexExists, sessions_tbl>>
         ELSE IF ~tableExists
         THEN /\ SchemaEnd("down_done", "ErrMissing")
              /\ UNCHANGED <<tableExists, indexExists, sessions_tbl>>
         ELSE /\ tableExists' = FALSE
              /\ indexExists' = FALSE
              /\ sessions_tbl' = <<>>
              /\ SchemaEnd("down_done", "Ok")
    /\ UNCHANGED <<dialect, preSchema, meta, now, lastOp, extWrites>>
    /\ UNCHANGED procVars

\* the schema migration has returned to the migrator
SchemaReturn ==
    /\ spc \in {"up_done", "down_done"}
    /\ spc' = "idle"
    /\ UNCHANGED <<dialect, tableExists, indexExists, schemaResult, preSchema>>
    /\ UNCHANGED <<meta, sessions_tbl, now, lastOp, extWrites>>
    /\ UNCHANGED procVars

\* ------------------------------------------------------- environment
\* the wall clock advances
Tick ==
    /\ now < MaxClock
    /\ now' = now + 1
    /\ UNCHANGED <<meta, sessions_tbl, lastOp, extWrites>>
    /\ UNCHANGED procVars
    /\ UNCHANGED schemaVars

Remove(s, i) == SubSeq(s, 1, i - 1) \o SubSeq(s, i + 1, Len(s))

\* another program deletes a row of meta
ExternalDelete ==
    /\ extWrites < MaxExtWrites
    /\ \E i \in 1..Len(meta) : meta' = Remove(meta, i)
    /\ extWrites' = extWrites + 1
    /\ UNCHANGED <<sessions_tbl, now, lastOp>>
    /\ UNCHANGED procVars
    /\ UNCHANGED schemaVars

\* ------------------------------------------------------ specifications
InitProcs ==
    /\ pc = [p \in AllProcs |-> "idle"]
    /\ page = [p \in AllProcs |-> 0]
    /\ metas = [p \in AllProcs |-> <<>>]
    /\ sessions = [p \in AllProcs |-> <<>>]
    /\ txnRows = [p \in AllProcs |-> <<>>]
    /\ preRows = [p \in AllProcs |-> <<>>]
    /\ result = [p \in AllProcs |-> "none"]
    /\ trace = [p \in AllProcs |-> <<>>]
    /\ runs = [p \in AllProcs |-> 0]
    /\ seen = [p \in AllProcs |-> <<>>]
    /\ preMeta = [p \in AllProcs |-> <<>>]
    /\ prevOp = [p \in AllProcs |-> "none"]
    /\ lastOp = "none"
    /\ extWrites = 0
    /\ now = 0

\* the schema migration has been applied and is at rest
InitSchemaApplied ==
    /\ tableExists = TRUE
    /\ indexExists = TRUE
    /\ spc = "idle"
    /\ schemaResult = "none"
    /\ preSchema = [table |-> FALSE, index |-> FALSE, rows |-> <<>>]
    /\ sessions_tbl = <<>>

\* One migrator: the populate migration is run and reverted, one operation
\* at a time, over an arbitrary meta table.
Init ==
    /\ dialect = "Postgres"
    /\ InitSchemaApplied
    /\ meta \in MetaTables(MaxMeta)
    /\ InitProcs

Next ==
    \/ Up(1)
    \/ (pc[1] = "idle" /\ Down)

Spec == Init /\ [][Next]_vars

\* One migrator, with another program deleting rows of meta.
NextWriter ==
    \/ ((pc[1] = "idle" => runs[1] < MaxRunsOverlap) /\ Up(1))
    \/ ExternalDelete

SpecWriter == Init /\ [][NextWriter]_vars

\* Two migrators that may overlap.
InitOverlap ==
    /\ dialect \in Dialects
    /\ InitSchemaApplied
    /\ meta \in MetaTablesOf(MetaShapesOverlap, MaxMetaOverlap)
    /\ InitProcs

NextOverlap ==
    \/ \E p \in AllProcs : (pc[p] = "idle" => runs[p] < MaxRunsOverlap) /\ Up(p)
    \/ Down

SpecOverlap == InitOverlap /\ [][NextOverlap]_vars

\* One migrator, with the wall clock advancing while it runs.
NextClock ==
    \/ Up(1)
    \/ Tick

SpecClock == InitOverlap /\ [][NextClock]_vars

\* a row of the sessions table written by the application, not by the
\* migration
OtherWriterRow == [session_id |-> <<"z">>, access_token |-> <<"t">>,
                   created_at |-> 0, updated_at |-> 0]

\* One migrator and the revert, which may run while the migrator's
\* transaction is open, on a sessions table that may already hold a row of
\* another writer.
InitDown ==
    /\ dialect \in Dialects
    /\ tableExists = TRUE
    /\ indexExists = TRUE
    /\ spc = "idle"
    /\ schemaResult = "none"
    /\ preSchema = [table |-> FALSE, index |-> FALSE, rows |-> <<>>]
    /\ sessions_tbl \in {<<>>, <<OtherWriterRow>>}
    /\ meta \in MetaTablesOf(MetaShapesOverlap, MaxMetaSchema)
    /\ InitProcs

NextDown ==
    \/ ((pc[1] = "idle" => runs[1] < MaxRuns) /\ Up(1))
    \/ Down

SpecDown == InitDown /\ [][NextDown]_vars

\* One migrator over legacy records whose identifiers reach and exceed the
\* length of the session_id column.
InitLong ==
    /\ dialect \in Dialects
    /\ InitSchemaApplied
    /\ meta \in MetaTablesOf(MetaShapesLong, MaxMetaSchema)
    /\ InitProcs

SpecLong == InitLong /\ [][Next]_vars

\* The whole life of the two migrations on a fresh database: the schema is
\* applied and reverted, and the populate migration is run and reverted,
\* one operation at a time.
InitSchema ==
    /\ dialect \in Dialects
    /\ tableExists = FALSE
    /\ indexExists = FALSE
    /\ spc = "idle"
    /\ schemaResult = "none"
    /\ preSchema = [table |-> FALSE, index |-> FALSE, rows |-> <<>>]
    /\ sessions_tbl = <<>>
    /\ meta \in MetaTablesOf(MetaShapesOverlap, MaxMetaSchema)
    /\ InitProcs

NextSchema ==
    \/ SchemaUpCreateTable
    \/ SchemaUpCreateIndex
    \/ SchemaDownDropIndex
    \/ SchemaDownDropTable
    \/ SchemaReturn
    \/ (spc = "idle" /\ Up(1))
    \/ (spc = "idle" /\ pc[1] = "idle" /\ Down)

SpecSchema == InitSchema /\ [][NextSchema]_vars

\* ====================================================== properties
\* What the claims speak of, stated from the rows themselves and not through
\* the operators of the model.

\* the strings a payload can encode
Tokens == {Empty, <<"t">>}

\* v is the JSON text of a string
IsJsonString(v) == \E tok \in Tokens : v = (<<QUOTE>> \o tok) \o <<QUOTE>>

\* the identifier a legacy row carries
Ident(r) == IF r.key2 # Empty THEN r.key2 ELSE r.key1

\* a legacy row that yields a session: right category, an identifier, and a
\* payload that is a non-empty JSON string
IsValid(r) ==
    /\ r.module = USER_SESSIONS
    /\ Ident(r) # Empty
    /\ IsJsonString(r.value)
    /\ r.value # PEmptyStr

\* a record-level data-quality issue: no identifier, or an empty token
IsSkippable(r) ==
    /\ r.module = USER_SESSIONS
    /\ (r.key1 = Empty /\ r.key2 = Empty) \/ r.value = PEmptyStr

\* a row of the category with an identifier whose payload does not decode
IsFatal(r) ==
    /\ r.module = USER_SESSIONS
    /\ Ident(r) # Empty
    /\ ~IsJsonString(r.value)

RECURSIVE ValidPairs(_)
\* <<session_id, access_token>> of every valid row of src, in id order
ValidPairs(src) ==
    IF src = <<>> THEN <<>>
    ELSE LET r == Head(src)
         IN  (IF IsValid(r)
              THEN << <<Ident(r), SubSeq(r.value, 2, Len(r.value) - 1)>> >>
              ELSE <<>>) \o ValidPairs(Tail(src))

RECURSIVE CategoryIds(_)
\* ids of the rows of the category user_sessions, in the order of src
CategoryIds(src) ==
    IF src = <<>> THEN <<>>
    ELSE (IF Head(src).module = USER_SESSIONS THEN <<Head(src).id>> ELSE <<>>)
         \o CategoryIds(Tail(src))

Pairs(rows) == [i \in 1..Len(rows) |-> <<rows[i].session_id, rows[i].access_token>>]

\* the rows added to the table since the run of p began
NewRows(p) == SubSeq(sessions_tbl, Len(preRows[p]) + 1, Len(sessions_tbl))

KeepsPreRows(p) ==
    /\ Len(preRows[p]) <= Len(sessions_tbl)
    /\ SubSeq(sessions_tbl, 1, Len(preRows[p])) = preRows[p]

Occurs(tr, ev) == \E i \in 1..Len(tr) : tr[i] = ev

\* errors that come from the database and not from the data
EnvErrors == {"ErrBegin", "ErrFetch", "ErrInsert", "ErrCommit"}

PairwiseDistinct(q) == \A i, j \in 1..Len(q) : i # j => q[i] # q[j]

\* C1: when up ends, the table holds its pre-run rows plus one row for
\* every valid matching legacy row (up returned Ok), or exactly its pre-run
\* rows (up returned an error); never only some pages' rows.
C1_AllOrNothing ==
    \A p \in AllProcs :
        pc[p] = "done" =>
            IF result[p] = "Ok"
            THEN KeepsPreRows(p) /\ Pairs(NewRows(p)) = ValidPairs(meta)
            ELSE sessions_tbl = preRows[p]

\* an insert failed after an earlier page had inserted its rows
C1_Witness ==
    /\ pc[1] = "done"
    /\ result[1] \in {"ErrInsert", "ErrUnique"}
    /\ Occurs(trace[1], "insert")

\* C2 as claimed: a row of the category whose payload does not decode,
\* whatever its identifier fields, makes up fail and leave the table as it
\* was before the run.
C2_AnyUndecodableIsFatal ==
    \A p \in AllProcs :
        (/\ pc[p] = "done"
         /\ \E i \in 1..Len(meta) :
              meta[i].module = USER_SESSIONS /\ ~IsJsonString(meta[i].value))
        => (result[p] # "Ok" /\ sessions_tbl = preRows[p])

\* C2 amended: a row of the category that has an identifier and whose
\* payload does not decode makes up fail, roll back and leave the table as
\* it was before the run, also when earlier pages inserted rows.
C2_UndecodableWithIdIsFatal ==
    \A p \in AllProcs :
        (pc[p] = "done" /\ \E i \in 1..Len(meta) : IsFatal(meta[i]))
        => /\ result[p] # "Ok"
           /\ sessions_tbl = preRows[p]
           /\ result[p] # "ErrBegin" => trace[p][Len(trace[p])] = "rollback"

\* the decode error came after an earlier page had inserted its rows
C2_Witness ==
    /\ pc[1] = "done"
    /\ result[1] = "ErrDecode"
    /\ Occurs(trace[1], "insert")
    /\ sessions_tbl = <<>>

\* C3: rows without identifier or with an empty token are never fatal: when
\* nothing else fails (no undecodable row, no repeated identifier, no
\* database error) up returns Ok with one row for every valid row.
C3_SkipsAreNotFatal ==
    \A p \in AllProcs :
        (/\ pc[p] = "done"
         /\ \E i \in 1..Len(meta) : IsSkippable(meta[i])
         /\ ~\E i \in 1..Len(meta) : IsFatal(meta[i])
         /\ result[p] \notin EnvErrors
         /\ PairwiseDistinct([i \in 1..Len(ValidPairs(meta)) |-> ValidPairs(meta)[i][1]])
         /\ \A i \in 1..Len(ValidPairs(meta)) :
              ValidPairs(meta)[i][1] \notin SessionIds(preRows[p]))
        => /\ result[p] = "Ok"
           /\ KeepsPreRows(p)
           /\ Pairs(NewRows(p)) = ValidPairs(meta)

\* a row with an empty token was skipped in the first page, a valid row of
\* the second page was inserted and the run committed
C3_Witness ==
    /\ pc[1] = "done"
    /\ result[1] = "Ok"
    /\ Len(meta) = 3
    /\ meta[1].value = PEmptyStr
    /\ meta[1].module = USER_SESSIONS
    /\ IsValid(meta[3])
    /\ Len(sessions_tbl) >= 1

\* C4: when up commits and no other program changed meta during the run,
\* the rows it inserted are, in order, the valid rows of the category: the
\* loop took every row of the category once, in ascending id order, and no
\* row of another category.
C4_ExactlyOnce ==
    \A p \in AllProcs :
        (pc[p] = "done" /\ result[p] = "Ok" /\ meta = preMeta[p])
        => /\ Pairs(NewRows(p)) = ValidPairs(meta)
           /\ seen[p] = CategoryIds(meta)
           /\ \A i, j \in 1..Len(seen[p]) : i < j => seen[p][i] < seen[p][j]

\* three valid rows in two pages gave three rows
C4_Witness ==
    /\ pc[1] = "done"
    /\ result[1] = "Ok"
    /\ meta = preMeta[1]
    /\ Len(NewRows(1)) = 3
    /\ page[1] = 3

\* C5: a row pushed for a legacy row m has session_id = m.key2 when key2 is
\* not empty, = m.key1 when key2 is empty and key1 is not, and its
\* access_token is the string m.value encodes.
C5_IdentifierSelection ==
    [][\A p \in AllProcs :
         Len(sessions'[p]) = Len(sessions[p]) + 1 =>
            LET m == Head(metas[p])
                r == sessions'[p][Len(sessions'[p])]
            IN  /\ m.key2 # Empty => r.session_id = m.key2
                /\ m.key2 = Empty => (m.key1 # Empty /\ r.session_id = m.key1)
                /\ (<<QUOTE>> \o r.access_token) \o <<QUOTE>> = m.value]_vars

\* a row took its identifier from key1, and a later one from key2 although
\* key1 was not empty
C5_Witness ==
    /\ Len(sessions[1]) = 2
    /\ sessions[1][1].session_id = <<"a">>
    /\ sessions[1][2].session_id = <<"b">>
    /\ meta[1].key2 = Empty
    /\ meta[2].key1 = <<"a">>
    /\ meta[1].module = USER_SESSIONS /\ meta[2].module = USER_SESSIONS

\* the calls of a run end the transaction once: the last call, and only
\* the last, is a commit or a rollback; it is a commit exactly when up
\* returned Ok, and a commit directly follows the fetch that came back empty
EndsOnce(tr, res) ==
    /\ tr # <<>>
    /\ Cardinality({i \in 1..Len(tr) : tr[i] \in {"commit", "rollback"}}) = 1
    /\ tr[Len(tr)] \in {"commit", "rollback"}
    /\ tr[Len(tr)] = "commit" <=> res = "Ok"
    /\ tr[Len(tr)] = "commit" => (Len(tr) >= 2 /\ tr[Len(tr) - 1] = "fetch_empty")

\* C6 as claimed: every run of up ends its transaction exactly once.
C6_EveryRunEndsOnce ==
    \A p \in AllProcs : pc[p] = "done" => EndsOnce(trace[p], result[p])

\* C6 amended: every run of up whose begin succeeded ends its transaction
\* exactly once (commit and Ok, or rollback and an error), with nothing
\* after it and the commit right after the empty fetch; a run whose begin
\* fails returns the error with no transaction, no commit and no rollback.
C6_BegunRunEndsOnce ==
    \A p \in AllProcs :
        pc[p] = "done" =>
            IF result[p] = "ErrBegin"
            THEN trace[p] = <<>>
            ELSE EndsOnce(trace[p], result[p])

\* a run inserted rows in two pages and committed
C6_Witness ==
    /\ pc[1] = "done"
    /\ result[1] = "Ok"
    /\ Cardinality({i \in 1..Len(trace[1]) : trace[1][i] = "insert"}) = 2

\* C7 as claimed: the rows built from one page all carry the same
\* created_at.
C7_BatchSameTimestamp ==
    \A p \in AllProcs :
        \A i, j \in 1..Len(sessions[p]) :
            sessions[p][i].created_at = sessions[p][j].created_at

\* C8: with the schema in place, after any interleaving of runs of the
\* populate up and down, two runs of up that overlap included, no two
\* committed rows of the sessions table have the same session_id.
C8_SessionIdUnique ==
    \A i, j \in 1..Len(sessions_tbl) :
        i # j => sessions_tbl[i].session_id # sessions_tbl[j].session_id

\* two runs overlapped over a meta table without repeated identifiers: the
\* second began on the empty table, the first committed, and the second's
\* insert was rejected by the index
C8_Witness ==
    /\ result[1] = "Ok"
    /\ pc[2] = "done"
    /\ result[2] = "ErrUnique"
    /\ preRows[2] = <<>>
    /\ sessions_tbl # <<>>
    /\ PairwiseDistinct([i \in 1..Len(ValidPairs(meta)) |-> ValidPairs(meta)[i][1]])

\* C9: a run of up that directly follows a committed run over the same
\* meta table leaves the sessions table row for row as it found it; when
\* the first run inserted rows, the second fails (on the unique index,
\* unless the database fails first) and is rolled back.
C9_RerunKeepsTable ==
    \A p \in AllProcs :
        (pc[p] = "done" /\ prevOp[p] = "UpOk" /\ meta = preMeta[p])
        => /\ sessions_tbl = preRows[p]
           /\ ValidPairs(meta) # <<>> =>
                /\ result[p] \in EnvErrors \cup {"ErrUnique"}
                /\ result[p] # "ErrBegin" => trace[p][Len(trace[p])] = "rollback"

\* the second run met the rows of the first and was rejected
C9_Witness ==
    /\ pc[1] = "done"
    /\ prevOp[1] = "UpOk"
    /\ result[1] = "ErrUnique"
    /\ Len(sessions_tbl) = 3
    /\ sessions_tbl = preRows[1]

\* C10 as claimed: on every dialect, the schema up applied when the table
\* and the index already exist succeeds (unless the database itself fails)
\* and changes nothing.
C10_SchemaUpRepeatable ==
    (/\ spc = "up_done"
     /\ preSchema.table
     /\ preSchema.index
     /\ schemaResult # "ErrExec")
    => /\ schemaResult = "Ok"
       /\ tableExists
       /\ indexExists
       /\ sessions_tbl = preSchema.rows

\* C11 as claimed: the schema down run when the index or the table is
\* already missing returns Ok (unless the database itself fails) and leaves
\* the database as it was.
C11_SchemaDownAbsentIsNoop ==
    (/\ spc = "down_done"
     /\ ~preSchema.index \/ ~preSchema.table
     /\ schemaResult \notin {"ErrExec", "ErrSyntax"})
    => /\ schemaResult = "Ok"
       /\ tableExists = preSchema.table
       /\ indexExists = preSchema.index
       /\ sessions_tbl = preSchema.rows

PartialSchemaDown ==
    /\ spc = "idle"
    /\ schemaResult = "ErrExec"
    /\ preSchema.table
    /\ preSchema.index
    /\ tableExists
    /\ ~indexExists

\* C13 as claimed: after a down that dropped the index and failed before
\* dropping the table, a further down that the database does not fail goes
\* on to drop the table, so that neither table nor index is left.
C13_RetryCompletesRollback ==
    [][(/\ PartialSchemaDown
        /\ spc' \in {"down_done", "down_table"}
        /\ schemaResult' \notin {"ErrExec", "ErrSyntax"})
       => spc' = "down_table"]_vars

\* C14: every step in which the populate down succeeds leaves the sessions
\* table with zero rows, whatever rows it held (of the latest up, of another
\* writer), and touches no transaction of an up: the rows pending in a
\* running up and its position are as before.
C14_DownDeletesEveryRow ==
    [][(/\ lastOp' = "DownOk"
        /\ <<lastOp, sessions_tbl>>' # <<lastOp, sessions_tbl>>)
       => /\ sessions_tbl' = <<>>
          /\ txnRows' = txnRows
          /\ pc' = pc]_vars

\* the down emptied a table that held a row of another writer and the rows
\* committed by the up
C14_Witness ==
    /\ lastOp = "DownOk"
    /\ sessions_tbl = <<>>
    /\ preRows[1] = <<OtherWriterRow>>
    /\ result[1] = "Ok"
    /\ Occurs(trace[1], "insert")

\* C15: every session row the migration builds, holds in a transaction or
\* has committed to the table has created_at equal to updated_at.
C15_CreatedEqualsUpdated ==
    /\ \A i \in 1..Len(sessions_tbl) : sessions_tbl[i].created_at = sessions_tbl[i].updated_at
    /\ \A p \in AllProcs :
         /\ \A i \in 1..Len(sessions[p]) : sessions[p][i].created_at = sessions[p][i].updated_at
         /\ \A i \in 1..Len(txnRows[p]) : txnRows[p][i].created_at = txnRows[p][i].updated_at

\* a committed row built after the clock had advanced
C15_Witness ==
    \E i \in 1..Len(sessions_tbl) :
        /\ sessions_tbl[i].created_at = MaxClock
        /\ sessions_tbl[i].updated_at = MaxClock

\* the number of calls ev in the calls tr
Count(tr, ev) == Cardinality({i \in 1..Len(tr) : tr[i] = ev})

\* the pages of the scan that hold records, and those that yield a pair
NonEmptyPages == {k \in 0..MaxMeta : FetchPage(meta, k) # <<>>}
PagesWithPairs == {k \in 0..MaxMeta : ValidPairs(FetchPage(meta, k)) # <<>>}

\* C16: in a run that returned Ok, every page that holds records was
\* fetched and the scan ended at the one fetch that came back empty, whether
\* or not a page yielded valid pairs; one insert was made for each page with
\* valid pairs and none for a page without; and the valid pairs of every
\* page, those after a page without valid pairs included, are in the table.
C16_PageWithoutPairs ==
    \A p \in AllProcs :
        (pc[p] = "done" /\ result[p] = "Ok")
        => /\ Count(trace[p], "fetch") = Cardinality(NonEmptyPages)
           /\ Count(trace[p], "fetch_empty") = 1
           /\ Count(trace[p], "insert") = Cardinality(PagesWithPairs)
           /\ KeepsPreRows(p)
           /\ Pairs(NewRows(p)) = ValidPairs(meta)

\* the first page yields no pair, the second does: one insert, and a commit
C16_Witness ==
    /\ pc[1] = "done"
    /\ result[1] = "Ok"
    /\ FetchPage(meta, 0) # <<>>
    /\ 0 \notin PagesWithPairs
    /\ 1 \in PagesWithPairs
    /\ Count(trace[1], "insert") = 1
    /\ Len(NewRows(1)) = 1

\* C17: no step of the populate migration, of its up or of its down,
\* ending in success or in failure, changes the meta table.
C17_SourceOnlyRead == [][meta' = meta]_vars

\* an up that migrated rows was committed and then reverted; the legacy
\* records, the migrated ones included, are those the run started from
C17_Witness ==
    /\ lastOp = "DownOk"
    /\ result[1] = "Ok"
    /\ Occurs(trace[1], "insert")
    /\ ValidPairs(meta) # <<>>
    /\ meta = preMeta[1]

\* C18 as claimed: every row in the batch that up submits to insert_many
\* has a session_id of at most 36 characters, whatever the legacy identifier.
C18_SessionIdFits ==
    \A p \in AllProcs :
        (pc[p] = "loop" /\ metas[p] = <<>>)
        => \A i \in 1..Len(sessions[p]) : Len(sessions[p][i].session_id) <= SessionIdLen

\* the session_id of every valid row of src, in id order
ValidIds(src) == [i \in 1..Len(ValidPairs(src)) |-> ValidPairs(src)[i][1]]

\* C19: with the unique index in place, a run of up over records of which
\* two valid ones derive the same session_id (from key2 or from key1, in one
\* page or in two) does not return Ok and leaves the table as it was before
\* the run; when no record is fatal and the database does not fail, what it
\* returns is the uniqueness error. A run returns Ok only if the session_ids
\* of all valid records are pairwise distinct and none was in the table.
C19_DuplicateIdsFailTheRun ==
    \A p \in AllProcs :
        pc[p] = "done"
        => /\ ~PairwiseDistinct(ValidIds(meta))
              => /\ result[p] # "Ok"
                 /\ sessions_tbl = preRows[p]
                 /\ ((\A i \in 1..Len(meta) : ~IsFatal(meta[i])) /\ result[p] \notin EnvErrors)
                    => result[p] = "ErrUnique"
           /\ result[p] = "Ok"
              => /\ PairwiseDistinct(ValidIds(meta))
                 /\ {ValidIds(meta)[i] : i \in 1..Len(ValidIds(meta))} \cap SessionIds(preRows[p]) = {}

\* the same session_id from key2 in the first page and from key1 in the
\* second: the first insert went through, the second was rejected, and the
\* table holds no row
C19_Witness ==
    /\ pc[1] = "done"
    /\ result[1] = "ErrUnique"
    /\ Len(meta) = 3
    /\ meta[1].key2 = <<"a">>
    /\ meta[3].key2 = Empty
    /\ meta[3].key1 = <<"a">>
    /\ Occurs(trace[1], "insert")
    /\ preRows[1] = <<>>
    /\ sessions_tbl = <<>>

====
